---- MODULE Spec2Model ----
(***************************************************************************)
(* Model of src/main.cpp: the traversal of the experiment grid            *)
(* (recursive_folders), the frame sequencing (std::sort with the digit    *)
(* comparator), the shift computation (get_results), the calibration      *)
(* transform, the sharpness score (mig_frame) and the Results.csv sink.   *)
(*                                                                         *)
(* Numbers of type double are IEEE-754 binary64 values with the rounding  *)
(* of each operation; the text formatting of operator<< is not modelled.  *)
(* A raster is abstracted to what the OpenCV primitives compute from it:  *)
(* its size, the peak of its correlation map and its mean gradient        *)
(* magnitude.                                                              *)
(***************************************************************************)
EXTENDS Integers, Sequences, FiniteSets

VARIABLES
    pc,          \* position of the single thread inside main/recursive_folders
    ret,         \* value returned by recursive_folders: <<>> until it returns, then <<code>>
    cause,       \* why the run ended early: "none", "no_root", "open_failed",
                 \*   "out_of_range" (comparator), "cv_exception" (OpenCV assert),
                 \*   "filesystem_error" (std::filesystem call outside a try)
    cur,         \* number of the leaf directory being processed (0 before the first)
    dirFiles,    \* per leaf: the set of entry names found by the directory_iterator
    enumerated,  \* file_names as pushed back, in enumeration order, until sorted
    file_names,  \* the vector file_names of the current leaf after std::sort
    idx,         \* position of the range-for over file_names (next frame to read)
    frame_0,     \* the raster read from frame_0.png of the current leaf
    roi,         \* the template cut from frame_0 for the current leaf
    folders,     \* leaves whose results/ncc folders create_folders has made
    tables,      \* per leaf: the Results.csv stream and what was written to it
    probe        \* input and outputs of the measurement functions applied alone

vars == <<pc, ret, cause, cur, dirFiles, enumerated, file_names, idx, frame_0,
          roi, folders, tables, probe>>

-----------------------------------------------------------------------------
(* Bounds of the model *)

NumUnits == 2
MaxFiles == 3

(* Program constants *)

roi_w == 128
roi_h == 128
topLeft_x == 300
topLeft_y == 208
frameWidth == 728
frameHeight == 544
EXIT_SUCCESS == 0
EXIT_FAILURE == 1
INT_MAX == 2147483647

Units == 1..NumUnits

-----------------------------------------------------------------------------
(* IEEE-754 binary64 arithmetic.  A double is [s, m, e] with the value    *)
(* s * m * 2^e, where m is 0 or an integer of exactly MantBits bits.  m   *)
(* is held as a sequence of limbs in base 2^15, least significant first   *)
(* and without leading zero limbs, so that every intermediate product     *)
(* fits a machine int.  Each operation computes the exact result and      *)
(* rounds it once to nearest, ties to even.  The exponent is unbounded:   *)
(* overflow, subnormals, infinities, NaN and the sign of zero are not     *)
(* modelled (no value of the program comes near them).                    *)

Abs(x) == IF x < 0 THEN -x ELSE x

Base == 2 ^ 15
LimbBits == 15
MantBits == 53

RECURSIVE BTrim(_)
BTrim(a) ==
    IF a = <<>> THEN a
    ELSE IF a[Len(a)] = 0 THEN BTrim(SubSeq(a, 1, Len(a) - 1)) ELSE a

RECURSIVE IntToBig(_)
IntToBig(n) == IF n = 0 THEN <<>> ELSE <<n % Base>> \o IntToBig(n \div Base)

RECURSIVE BAddC(_, _, _)
BAddC(a, b, c) ==
    IF a = <<>> /\ b = <<>> THEN IntToBig(c)
    ELSE LET x == (IF a = <<>> THEN 0 ELSE Head(a))
                  + (IF b = <<>> THEN 0 ELSE Head(b)) + c
         IN  <<x % Base>> \o BAddC(IF a = <<>> THEN a ELSE Tail(a),
                                   IF b = <<>> THEN b ELSE Tail(b),
                                   x \div Base)

BAdd(a, b) == BAddC(a, b, 0)

\* a - b - c for a >= b + c, limb by limb with borrow c
RECURSIVE BSubC(_, _, _)
BSubC(a, b, c) ==
    IF a = <<>> THEN <<>>
    ELSE LET x == Head(a) - (IF b = <<>> THEN 0 ELSE Head(b)) - c
         IN  <<x % Base>> \o BSubC(Tail(a), IF b = <<>> THEN b ELSE Tail(b),
                                   IF x < 0 THEN 1 ELSE 0)

BSub(a, b) == BTrim(BSubC(a, b, 0))

\* -1, 0 or 1 as a < b, a = b or a > b, comparing from limb i down
RECURSIVE BCmpFrom(_, _, _)
BCmpFrom(a, b, i) ==
    IF i = 0 THEN 0
    ELSE IF a[i] < b[i] THEN -1
    ELSE IF a[i] > b[i] THEN 1
    ELSE BCmpFrom(a, b, i - 1)

BCmp(a, b) ==
    IF Len(a) < Len(b) THEN -1
    ELSE IF Len(a) > Len(b) THEN 1
    ELSE BCmpFrom(a, b, Len(a))

\* a * k + c for a limb k
RECURSIVE BMulLimb(_, _, _)
BMulLimb(a, k, c) ==
    IF a = <<>> THEN IntToBig(c)
    ELSE LET x == Head(a) * k + c
         IN  <<x % Base>> \o BMulLimb(Tail(a), k, x \div Base)

RECURSIVE BMulRaw(_, _)
BMulRaw(a, b) ==
    IF b = <<>> THEN <<>>
    ELSE BAdd(BMulLimb(a, Head(b), 0), <<0>> \o BMulRaw(a, Tail(b)))

BMul(a, b) == BTrim(BMulRaw(a, b))

\* floor(a / d) for 0 < d < Base, from limb i down with remainder r
RECURSIVE BDivLimb(_, _, _, _)
BDivLimb(a, i, d, r) ==
    IF i = 0 THEN <<>>
    ELSE LET x == r * Base + a[i]
         IN  Append(BDivLimb(a, i - 1, d, x % d), x \div d)

Zeros(n) == [i \in 1..n |-> 0]

\* a * 2^k
BShl(a, k) ==
    IF a = <<>> THEN a
    ELSE Zeros(k \div LimbBits) \o BTrim(BMulLimb(a, 2 ^ (k % LimbBits), 0))

\* floor(a / 2^k)
BShr(a, k) ==
    IF Len(a) <= k \div LimbBits THEN <<>>
    ELSE LET hi == SubSeq(a, (k \div LimbBits) + 1, Len(a))
         IN  BTrim(BDivLimb(hi, Len(hi), 2 ^ (k % LimbBits), 0))

RECURSIVE IntBits(_)
IntBits(n) == IF n = 0 THEN 0 ELSE 1 + IntBits(n \div 2)

BBits(a) == IF a = <<>> THEN 0 ELSE (Len(a) - 1) * LimbBits + IntBits(a[Len(a)])

BOdd(a) == a # <<>> /\ a[1] % 2 = 1

Zero == [s |-> 1, m |-> <<>>, e |-> 0]

\* the double nearest to s * m * 2^e, ties to even
Round(s, m, e) ==
    LET n == BBits(m)
    IN  IF n = 0 THEN Zero
        ELSE IF n <= MantBits
        THEN [s |-> s, m |-> BShl(m, MantBits - n), e |-> e - (MantBits - n)]
        ELSE LET k    == n - MantBits
                 q    == BShr(m, k)
                 rem  == BSub(m, BShl(q, k))
                 half == BCmp(rem, BShl(<<1>>, k - 1))
                 up   == half > 0 \/ (half = 0 /\ BOdd(q))
                 r    == IF up THEN BAdd(q, <<1>>) ELSE q
             IN  IF BBits(r) > MantBits
                 THEN [s |-> s, m |-> BShr(r, 1), e |-> e + k + 1]
                 ELSE [s |-> s, m |-> r, e |-> e + k]

\* n * 2^e for an int n
Dbl(n, e) == Round(IF n < 0 THEN -1 ELSE 1, IntToBig(Abs(n)), e)

FromInt(n) == Dbl(n, 0)

FNeg(a) == IF a.m = <<>> THEN a ELSE [a EXCEPT !.s = -a.s]

FMul(a, b) == Round(a.s * b.s, BMul(a.m, b.m), a.e + b.e)

FAdd(a, b) ==
    IF a.m = <<>> THEN b
    ELSE IF b.m = <<>> THEN a
    ELSE LET e  == IF a.e < b.e THEN a.e ELSE b.e
             ma == BShl(a.m, a.e - e)
             mb == BShl(b.m, b.e - e)
             c  == BCmp(ma, mb)
         IN  IF a.s = b.s THEN Round(a.s, BAdd(ma, mb), e)
             ELSE IF c = 0 THEN Zero
             ELSE IF c > 0 THEN Round(a.s, BSub(ma, mb), e)
             ELSE Round(b.s, BSub(mb, ma), e)

FSub(a, b) == FAdd(a, FNeg(b))

\* restoring division of n by d (both of MantBits bits), one quotient bit
\* per step until the quotient has MantBits + GuardBits bits: after i steps
\* q = floor(n * 2^(i-1) / d) and r = 2 * (n * 2^(i-1) - q * d)
GuardBits == 3

RECURSIVE DivSteps(_, _, _, _)
DivSteps(r, d, q, i) ==
    IF BBits(q) = MantBits + GuardBits THEN [q |-> q, r |-> r, steps |-> i]
    ELSE IF BCmp(r, d) >= 0
    THEN DivSteps(BShl(BSub(r, d), 1), d, BAdd(BShl(q, 1), <<1>>), i + 1)
    ELSE DivSteps(BShl(r, 1), d, BShl(q, 1), i + 1)

\* the quotient bits followed by a sticky bit for the remainder, rounded once
FDiv(a, b) ==
    IF a.m = <<>> THEN Zero
    ELSE LET d      == DivSteps(a.m, b.m, <<>>, 0)
             sticky == IF d.r = <<>> THEN <<>> ELSE <<1>>
         IN  Round(a.s * b.s, BAdd(BShl(d.q, 1), sticky), a.e - b.e - d.steps)

(* Transformation matrix parameters *)
Txx == Dbl(-1027, -2)   \* -256.75
Txy == Dbl(5, -1)       \* 2.5
Tyx == Dbl(7, -1)       \* 3.5
Tyy == Dbl(521, -1)     \* 260.5

-----------------------------------------------------------------------------
(* File names: strings as sequences of characters *)

Digits == {"0", "1", "2", "3", "4", "5", "6", "7", "8", "9"}

DigitVal(c) ==
    CASE c = "0" -> 0 [] c = "1" -> 1 [] c = "2" -> 2 [] c = "3" -> 3
      [] c = "4" -> 4 [] c = "5" -> 5 [] c = "6" -> 6 [] c = "7" -> 7
      [] c = "8" -> 8 [] c = "9" -> 9

Frame0Png == <<"f", "r", "a", "m", "e", "_", "0", ".", "p", "n", "g">>
Frame10Png == <<"f", "r", "a", "m", "e", "_", "1", "0", ".", "p", "n", "g">>
Frame010Png == <<"f", "r", "a", "m", "e", "_", "0", "1", "0", ".", "p", "n", "g">>
FrameBigPng == <<"f", "r", "a", "m", "e", "_", "9", "9", "9", "9", "9", "9", "9",
                 "9", "9", "9", ".", "p", "n", "g">>
NotesTxt == <<"n", "o", "t", "e", "s", ".", "t", "x", "t">>

\* the entry names a leaf directory of the model may hold
FileNamePool ==
    {Frame0Png, Frame10Png, Frame010Png, FrameBigPng, NotesTxt}

Listings == {S \in SUBSET FileNamePool : Cardinality(S) <= MaxFiles}

\* a.find_first_of("0123456789"): 1-based position, Len(a) + 1 standing for npos
find_first_of_digit(a) ==
    IF \E i \in 1..Len(a) : a[i] \in Digits
    THEN CHOOSE i \in 1..Len(a) :
            a[i] \in Digits /\ \A j \in 1..(i - 1) : a[j] \notin Digits
    ELSE Len(a) + 1

HasDigit(a) == find_first_of_digit(a) <= Len(a)

\* a.substr(pos) for a position inside the string
substr(a, pos) == SubSeq(a, pos, Len(a))

\* length of the run of digits stoi consumes at the start of s
RECURSIVE DigitRun(_)
DigitRun(s) ==
    IF s = <<>> \/ Head(s) \notin Digits THEN 0 ELSE 1 + DigitRun(Tail(s))

\* value of the first n characters of s read as a decimal number, or -1
\* once it no longer fits an int
RECURSIVE DecVal(_, _)
DecVal(s, n) ==
    IF n = 0 THEN 0
    ELSE LET v == DecVal(s, n - 1)
             d == DigitVal(s[n])
         IN  IF v < 0 \/ v > (INT_MAX - d) \div 10 THEN -1 ELSE 10 * v + d

stoi_first_digit(s) ==
    [threw |-> FALSE, val |-> DigitVal(s[1])]

\* std::stoi(s) for s starting with a digit: the leading digit run, or
\* std::out_of_range when it does not fit an int
stoi(s) ==
    LET v == DecVal(s, DigitRun(s))
    IN  IF v < 0 THEN [threw |-> TRUE, val |-> 0]
        ELSE [threw |-> FALSE, val |-> v]

\* the integer the comparator reads from a name (lines 173-176): substr
\* throws std::out_of_range at npos, stoi when the run overflows
ParseIndex(a) ==
    IF ~HasDigit(a) THEN [threw |-> TRUE, val |-> 0]
    ELSE stoi(substr(a, find_first_of_digit(a)))

\* the lambda of line 171, for names it does not throw on
Comp(a, b) == ParseIndex(a).val < ParseIndex(b).val

Injective(s) == \A i, j \in DOMAIN s : i # j => s[i] # s[j]

\* all orders a directory_iterator may enumerate a set of names in
Enumerations(S) ==
    {s \in [1..Cardinality(S) -> S] : Injective(s)}

IsPermutation(p, s) ==
    /\ Len(p) = Len(s)
    /\ \A i \in 1..Len(s) :
          Cardinality({j \in 1..Len(s) : s[j] = s[i]})
            = Cardinality({j \in 1..Len(p) : p[j] = s[i]})

\* std::sort calls the comparator on every element of a range of two or
\* more; on a shorter range it never calls it
SortThrows(s) == Len(s) >= 2 /\ \E i \in 1..Len(s) : ParseIndex(s[i]).threw

\* std::sort(first, last, comp): a permutation ordered by comp; the order
\* of elements equivalent under comp is unspecified
StdSort(s) ==
    {p \in [1..Len(s) -> {s[i] : i \in 1..Len(s)}] :
        /\ IsPermutation(p, s)
        /\ \A i, j \in 1..Len(p) : i < j => ~Comp(p[j], p[i])}

-----------------------------------------------------------------------------
(* Rasters and the OpenCV primitives *)

\* cv::Mat() as cv::imread returns it when the file is missing or undecodable
EmptyMat == [empty |-> TRUE, cols |-> 0, rows |-> 0]

\* a decoded 728x544 grayscale frame: peak and score are the maximum of its
\* normalized correlation map against the template, grad its mean Sobel
\* gradient magnitude
Img(peak, score, grad) ==
    [empty |-> FALSE, cols |-> frameWidth, rows |-> frameHeight,
     peak |-> peak, score |-> score, grad |-> grad]

\* what each file of the pool holds when it decodes
ImgOf(name) ==
    CASE name = Frame0Png   -> Img(<<topLeft_x, topLeft_y>>, FromInt(1), FromInt(0))
      [] name = Frame10Png  -> Img(<<topLeft_x + 5, topLeft_y + 3>>, Dbl(127, -7), FromInt(1))
      [] name = Frame010Png -> Img(<<topLeft_x - 2, topLeft_y - 1>>, Dbl(7, -3), Dbl(5, -1))
      [] name = FrameBigPng -> Img(<<0, 0>>, Dbl(1, -1), FromInt(3))
      [] name = NotesTxt    -> Img(<<frameWidth - roi_w, frameHeight - roi_h>>,
                                   Dbl(1, -2), FromInt(7))

\* cv::imread(dir + "/" + name, IMREAD_GRAYSCALE): an empty Mat for a missing
\* file, and for a present one either its raster or an empty Mat (corrupt)
imread(dir, name) ==
    IF name \in dir THEN {EmptyMat, ImgOf(name)} ELSE {EmptyMat}

\* line 193 inside the loop: the files do not change during the run, so
\* reading frame_0.png again gives the raster line 183 got
ReadFrame(dir, name, first) ==
    IF name = Frame0Png THEN {first} ELSE imread(dir, name)

\* get_roi: copy_frame(roiRect) asserts that the rectangle lies inside the
\* frame and throws cv::Exception otherwise
get_roi(frame, width, height, x, y) ==
    IF /\ 0 <= x /\ 0 <= width /\ x + width <= frame.cols
       /\ 0 <= y /\ 0 <= height /\ y + height <= frame.rows
    THEN [threw |-> FALSE, cols |-> width, rows |-> height, at |-> <<x, y>>]
    ELSE [threw |-> TRUE, cols |-> 0, rows |-> 0, at |-> <<0, 0>>]

NoRoi == [threw |-> TRUE, cols |-> 0, rows |-> 0, at |-> <<0, 0>>]

\* cv::matchTemplate + cv::minMaxLoc (lines 300-301).  For an empty frame
\* the outcome depends on the OpenCV build: the size assertion of the
\* correlation throws, or an all-zero map is returned whose maximum is its
\* first element
matchTemplate(frame, templ) ==
    IF frame.empty
    THEN {[threw |-> TRUE, maxLoc |-> <<0, 0>>, maxVal |-> FromInt(0)],
          [threw |-> FALSE, maxLoc |-> <<0, 0>>, maxVal |-> FromInt(0)]}
    ELSE {[threw |-> FALSE, maxLoc |-> frame.peak, maxVal |-> frame.score]}

\* C++ integer division truncates toward zero
TruncDiv(a, b) ==
    IF (a >= 0) = (b > 0) THEN Abs(a) \div Abs(b) ELSE -(Abs(a) \div Abs(b))

get_results_swapped(m, fWidth, fHeight, width, height) ==
    [match_loc  |-> m.maxLoc,
     confidence |-> FMul(m.maxVal, FromInt(100)),
     shift_row  |-> (m.maxLoc[2] + TruncDiv(width, 2)) - TruncDiv(fWidth, 2),
     shift_col  |-> (m.maxLoc[1] + TruncDiv(height, 2)) - TruncDiv(fHeight, 2)]

\* get_results, lines 302-310, from the matcher's maximum m
get_results(m, fWidth, fHeight, width, height) ==
    [match_loc  |-> m.maxLoc,
     confidence |-> FMul(m.maxVal, FromInt(100)),
     shift_row  |-> (m.maxLoc[2] + TruncDiv(height, 2)) - TruncDiv(fHeight, 2),
     shift_col  |-> (m.maxLoc[1] + TruncDiv(width, 2)) - TruncDiv(fWidth, 2)]

\* (Txx * Tyy) - (Txy * Tyx)
Det == FSub(FMul(Txx, Tyy), FMul(Txy, Tyx))

Calibrate_swapped(shift_row, shift_col) ==
    [shift_col_mm |->
        FDiv(FSub(FMul(FromInt(shift_col), Tyy), FMul(FromInt(shift_row), Tyx)), Det),
     shift_row_mm |->
        FDiv(FSub(FMul(FromInt(shift_row), Txx), FMul(FromInt(shift_col), Txy)), Det)]

\* lines 198-199
Calibrate(shift_row, shift_col) ==
    [shift_col_mm |->
        FDiv(FSub(FMul(FromInt(shift_col), Tyy), FMul(FromInt(shift_row), Txy)), Det),
     shift_row_mm |->
        FDiv(FSub(FMul(FromInt(shift_row), Txx), FMul(FromInt(shift_col), Tyx)), Det)]

\* mig_frame: EXIT_FAILURE converted to double for an empty frame, otherwise
\* sum(magnitude(Sobel dx, Sobel dy)) / (rows * cols)
mig_frame(frame) ==
    IF frame.empty THEN FromInt(EXIT_FAILURE) ELSE frame.grad

-----------------------------------------------------------------------------
(* The text written to Results.csv, as a sequence of tokens *)

Comma == [k |-> "sep", v |-> Zero, s |-> ","]
Num(q) == [k |-> "num", v |-> q, s |-> ""]
Str(t) == [k |-> "str", v |-> Zero, s |-> t]

ColumnNames ==
    <<"Pixel Shift X (Columns)", "Pixel Shift Y (Rows)", "Confidence (%)",
      "Dist. X (mm)", "Dist. Y (mm)", "Error X (mm)", "Error Y (mm)",
      "Error X (%)", "Error Y (%)", "MIG">>

\* line 158
HeaderLine ==
    <<Str(ColumnNames[1]), Comma, Str(ColumnNames[2]), Comma,
      Str(ColumnNames[3]), Comma, Str(ColumnNames[4]), Comma,
      Str(ColumnNames[5]), Comma, Str(ColumnNames[6]), Comma,
      Str(ColumnNames[7]), Comma, Str(ColumnNames[8]), Comma,
      Str(ColumnNames[9]), Comma, Str(ColumnNames[10])>>

RowLine_calibration(res, mm, mig) ==
    <<Num(FromInt(res.shift_col)), Comma, Num(FromInt(res.shift_row)), Comma,
      Num(res.confidence), Comma,
      Comma, Comma, Comma, Comma, Comma, Comma,
      Num(mig)>>

\* lines 217-224
RowLine(res, mm, mig) ==
    <<Num(FromInt(res.shift_col)), Comma, Num(FromInt(res.shift_row)), Comma,
      Num(res.confidence), Comma, Num(mm.shift_col_mm), Comma,
      Num(mm.shift_row_mm), Comma,
      Comma, Comma, Comma, Comma,
      Num(mig)>>

\* the comma-separated fields of a line: the tokens from position i on,
\* with field the field being read and acc the fields read so far
RECURSIVE FieldsFrom(_, _, _, _)
FieldsFrom(line, i, field, acc) ==
    IF i > Len(line) THEN Append(acc, field)
    ELSE IF line[i].k = "sep"
         THEN FieldsFrom(line, i + 1, <<>>, Append(acc, field))
         ELSE FieldsFrom(line, i + 1, Append(field, line[i]), acc)

Fields(line) == FieldsFrom(line, 1, <<>>, <<>>)

-----------------------------------------------------------------------------
(* The traversal: main -> recursive_folders *)

NoTable == [st |-> "absent", lines |-> <<>>, recs |-> <<>>]

Idle == [phase |-> "idle"]

Init ==
    /\ pc = "start"
    /\ ret = <<>>
    /\ cause = "none"
    /\ cur = 0
    /\ dirFiles = [u \in Units |-> {}]
    /\ enumerated = <<>>
    /\ file_names = <<>>
    /\ idx = 0
    /\ frame_0 = EmptyMat
    /\ roi = NoRoi
    /\ folders = {}
    /\ tables = [u \in Units |-> NoTable]
    /\ probe = Idle

\* an exception nobody catches: std::terminate ends the process where it is
Terminate(why) ==
    /\ pc' = "terminated"
    /\ cause' = why
    /\ UNCHANGED ret

\* lines 109-121: the root directory is checked once, then the outer
\* directory_iterator is constructed on it; std::filesystem::exists on a
\* path it cannot examine, and the iterator on a path that is no readable
\* directory, throw std::filesystem::filesystem_error, which nobody catches
Start ==
    /\ pc = "start"
    /\ \E root \in {"missing", "directory", "cannot_open"} :
          CASE root = "directory" ->
                  /\ pc' = "next_unit"
                  /\ UNCHANGED <<ret, cause>>
            [] root = "missing" ->
                  /\ pc' = "returned"
                  /\ ret' = <<EXIT_FAILURE>>
                  /\ cause' = "no_root"
            [] root = "cannot_open" ->
                  Terminate("filesystem_error")
    /\ UNCHANGED <<cur, dirFiles, enumerated, file_names, idx, frame_0, roi,
                   folders, tables, probe>>

\* lines 121-137: a directory_iterator of the three loops, constructed or
\* advanced on the way to the next leaf or to the end, or is_directory(),
\* throws std::filesystem::filesystem_error (an entry that cannot be opened)
WalkThrows ==
    /\ pc = "next_unit"
    /\ Terminate("filesystem_error")
    /\ UNCHANGED <<cur, dirFiles, enumerated, file_names, idx, frame_0, roi,
                   folders, tables, probe>>

OpenFailed_continue ==
    /\ pc' = "next_unit"
    /\ cause' = "open_failed"
    /\ UNCHANGED ret

\* lines 151-155: the stream is not open
OpenFailed ==
    /\ pc' = "returned"
    /\ ret' = <<EXIT_FAILURE>>
    /\ cause' = "open_failed"

\* lines 137-155: the next leaf directory: create_folders twice (a
\* filesystem_error is caught and only reported), then std::ofstream
\* opens and truncates Results.csv
EnterUnit ==
    /\ pc = "next_unit"
    /\ cur < NumUnits
    /\ cur' = cur + 1
    /\ \E made \in BOOLEAN, opened \in BOOLEAN :
          /\ opened => made
          /\ folders' = IF made THEN folders \cup {cur + 1} ELSE folders
          /\ IF opened
             THEN /\ tables' = [tables EXCEPT ![cur + 1] =
                                   [st |-> "open", lines |-> <<>>, recs |-> <<>>]]
                  /\ pc' = "header"
                  /\ UNCHANGED <<ret, cause>>
             ELSE /\ OpenFailed
                  /\ UNCHANGED tables
    /\ UNCHANGED <<dirFiles, enumerated, file_names, idx, frame_0, roi, probe>>

\* line 158
WriteHeader ==
    /\ pc = "header"
    /\ tables' = [tables EXCEPT ![cur].lines = Append(@, HeaderLine)]
    /\ pc' = "list"
    /\ UNCHANGED <<ret, cause, cur, dirFiles, enumerated, file_names, idx,
                   frame_0, roi, folders, probe>>

\* lines 161-178: the entries of the leaf in the iterator's order, then
\* std::sort; the directory_iterator of line 164 throws filesystem_error
\* when the leaf cannot be read
ListAndSort ==
    /\ pc = "list"
    /\ \/ /\ Terminate("filesystem_error")
          /\ UNCHANGED <<dirFiles, enumerated, file_names>>
       \/ \E S \in Listings :
          \E e \in Enumerations(S) :
             /\ dirFiles' = [dirFiles EXCEPT ![cur] = S]
             /\ enumerated' = e
             /\ IF SortThrows(e)
                THEN /\ Terminate("out_of_range")
                     /\ file_names' = e
                ELSE /\ \E p \in StdSort(e) : file_names' = p
                     /\ pc' = "roi"
                     /\ UNCHANGED <<ret, cause>>
    /\ UNCHANGED <<cur, idx, frame_0, roi, folders, tables, probe>>

\* lines 182-184
GetRoi ==
    /\ pc = "roi"
    /\ \E f \in imread(dirFiles[cur], Frame0Png) :
          LET r == get_roi(f, roi_w, roi_h, topLeft_x, topLeft_y)
          IN  IF r.threw
              THEN /\ Terminate("cv_exception")
                   /\ UNCHANGED <<frame_0, roi, idx>>
              ELSE /\ frame_0' = f
                   /\ roi' = r
                   /\ idx' = 1
                   /\ pc' = "frames"
                   /\ UNCHANGED <<ret, cause>>
    /\ enumerated' = <<>>
    /\ UNCHANGED <<cur, dirFiles, file_names, folders, tables, probe>>

WriteRow_twice(t, line, rec) ==
    [t EXCEPT !.lines = Append(Append(@, line), line),
              !.recs = Append(Append(@, rec), rec)]

WriteRow_front(t, line, rec) ==
    [t EXCEPT !.lines = <<Head(@), line>> \o Tail(@),
              !.recs = <<rec>> \o @]

\* csv_file << ... << std::endl, lines 217-224
WriteRow(t, line, rec) ==
    [t EXCEPT !.lines = Append(@, line), !.recs = Append(@, rec)]

\* lines 188-225: one iteration of the range-for over file_names
ProcessFrame ==
    /\ pc = "frames"
    /\ idx <= Len(file_names)
    /\ \E img \in ReadFrame(dirFiles[cur], file_names[idx], frame_0) :
       \E m \in matchTemplate(img, roi) :
          IF m.threw
          THEN /\ Terminate("cv_exception")
               /\ UNCHANGED <<idx, tables>>
          ELSE LET res == get_results(m, frameWidth, frameHeight, roi_w, roi_h)
                   mm  == Calibrate(res.shift_row, res.shift_col)
                   mig == mig_frame(img)
                   rec == [file |-> file_names[idx], img |-> img, res |-> res,
                           mm |-> mm, mig |-> mig]
               IN  /\ tables' = [tables EXCEPT ![cur] =
                                    WriteRow(@, RowLine(res, mm, mig), rec)]
                   /\ idx' = idx + 1
                   /\ UNCHANGED <<pc, ret, cause>>
    /\ UNCHANGED <<cur, dirFiles, enumerated, file_names, frame_0, roi, folders,
                   probe>>

\* line 229, and the end of the leaf's scope
CloseUnit ==
    /\ pc = "frames"
    /\ idx > Len(file_names)
    /\ tables' = [tables EXCEPT ![cur].st = "closed"]
    /\ pc' = "next_unit"
    /\ file_names' = <<>>
    /\ idx' = 0
    /\ frame_0' = EmptyMat
    /\ roi' = NoRoi
    /\ UNCHANGED <<ret, cause, cur, dirFiles, enumerated, folders, probe>>

\* line 237: the iteration is over
Return ==
    /\ pc = "next_unit"
    /\ cur = NumUnits
    /\ pc' = "returned"
    /\ ret' = <<EXIT_SUCCESS>>
    /\ UNCHANGED <<cause, cur, dirFiles, enumerated, file_names, idx, frame_0,
                   roi, folders, tables, probe>>

Next ==
    \/ Start
    \/ WalkThrows
    \/ EnterUnit
    \/ WriteHeader
    \/ ListAndSort
    \/ GetRoi
    \/ ProcessFrame
    \/ CloseUnit
    \/ Return

Spec == Init /\ [][Next]_vars

-----------------------------------------------------------------------------
(* The measurement functions applied to one frame *)

ProbeLocs ==
    {<<x, y>> \in (0..(frameWidth - roi_w)) \X (0..(frameHeight - roi_h)) :
        x % 30 = 0 /\ y % 26 = 0}

ProbeFrames ==
    {EmptyMat} \cup
    {Img(l, FromInt(1), g) : l \in ProbeLocs, g \in {FromInt(0), FromInt(1), Dbl(5, -1)}}

InitMeasure ==
    /\ pc = "measure"
    /\ ret = <<>>
    /\ cause = "none"
    /\ cur = 0
    /\ dirFiles = [u \in Units |-> {}]
    /\ enumerated = <<>>
    /\ file_names = <<>>
    /\ idx = 0
    /\ frame_0 = ImgOf(Frame0Png)
    /\ roi = get_roi(ImgOf(Frame0Png), roi_w, roi_h, topLeft_x, topLeft_y)
    /\ folders = {}
    /\ tables = [u \in Units |-> NoTable]
    /\ \E f \in ProbeFrames : probe = [phase |-> "in", frame |-> f]

\* get_results on the frame, then lines 198-199
MeasureShift ==
    /\ pc = "measure"
    /\ probe.phase \in {"in", "mig"}
    /\ \E m \in matchTemplate(probe.frame, roi) :
          IF m.threw
          THEN probe' = [phase |-> "threw", frame |-> probe.frame]
          ELSE LET res == get_results(m, frameWidth, frameHeight, roi_w, roi_h)
               IN  probe' = [phase |-> "shift", frame |-> probe.frame, m |-> m,
                             res |-> res,
                             mm |-> Calibrate(res.shift_row, res.shift_col)]
    /\ UNCHANGED <<pc, ret, cause, cur, dirFiles, enumerated, file_names, idx,
                   frame_0, roi, folders, tables>>

\* mig_frame on the frame
MeasureMig ==
    /\ pc = "measure"
    /\ probe.phase \in {"in", "shift"}
    /\ probe' = [phase |-> "mig", frame |-> probe.frame,
                 mig |-> mig_frame(probe.frame)]
    /\ UNCHANGED <<pc, ret, cause, cur, dirFiles, enumerated, file_names, idx,
                   frame_0, roi, folders, tables>>

NextMeasure == MeasureShift \/ MeasureMig

SpecMeasure == InitMeasure /\ [][NextMeasure]_vars

-----------------------------------------------------------------------------
(* Properties *)

\* the integer written by the first maximal run of decimal digits of a
\* name, stated apart from the comparator's parsing
FirstRunStart(a) ==
    CHOOSE i \in 1..Len(a) : a[i] \in Digits /\ \A j \in 1..(i - 1) : a[j] \notin Digits

FirstRunEnd(a) ==
    CHOOSE e \in FirstRunStart(a)..Len(a) :
        /\ \A j \in FirstRunStart(a)..e : a[j] \in Digits
        /\ e = Len(a) \/ a[e + 1] \notin Digits

RECURSIVE Pow10(_)
Pow10(n) == IF n = 0 THEN 1 ELSE 10 * Pow10(n - 1)

RECURSIVE RunSum(_, _, _)
RunSum(a, i, e) ==
    IF i > e THEN 0 ELSE DigitVal(a[i]) * Pow10(e - i) + RunSum(a, i + 1, e)

\* the name holds a digit run, short enough to fit an int whatever its digits
Indexed(a) ==
    /\ \E i \in 1..Len(a) : a[i] \in Digits
    /\ FirstRunEnd(a) - FirstRunStart(a) < 9

IndexOf(a) == RunSum(a, FirstRunStart(a), FirstRunEnd(a))

PosIn(s, x) == CHOOSE i \in 1..Len(s) : s[i] = x

DataRows(t) == IF t.lines = <<>> THEN 0 ELSE Len(t.lines) - 1

Complete(u) ==
    /\ tables[u].st = "closed"
    /\ DataRows(tables[u]) = Cardinality(dirFiles[u])

\* C1: a leaf whose processing ran to completion has exactly one data row
\* per entry enumerated in the leaf: none skipped, none written twice
C1_RowPerFrame ==
    \A u \in Units :
        tables[u].st = "closed" =>
            /\ DataRows(tables[u]) = Cardinality(dirFiles[u])
            /\ Len(tables[u].recs) = Cardinality(dirFiles[u])
            /\ \A n \in dirFiles[u] :
                  Cardinality({k \in 1..Len(tables[u].recs) :
                                  tables[u].recs[k].file = n}) = 1

C1_Witness ==
    \E u \in Units :
        /\ tables[u].st = "closed"
        /\ Cardinality(dirFiles[u]) = MaxFiles
        /\ DataRows(tables[u]) = MaxFiles

\* the scores frames that do decode produce
LegitMigValues == {mig_frame(f) : f \in ProbeFrames \ {EmptyMat}}

\* C2: for an empty raster mig_frame gives an outcome that no decoded
\* frame's score can be taken for
C2_EmptyFrameIsError ==
    (probe.phase = "mig" /\ probe.frame.empty) => probe.mig \notin LegitMigValues

\* C3: when every name holds a digit run and the indices are pairwise
\* distinct, the sorted names are strictly increasing by index, and every
\* enumeration order of the same directory sorts to this same sequence
C3_SortedByIndex ==
    (/\ pc = "roi"
     /\ \A n \in dirFiles[cur] : Indexed(n)
     /\ \A n1, n2 \in dirFiles[cur] : n1 # n2 => IndexOf(n1) # IndexOf(n2))
    => /\ IsPermutation(file_names, enumerated)
       /\ \A i, j \in 1..Len(file_names) :
             i < j => IndexOf(file_names[i]) < IndexOf(file_names[j])
       /\ \A e \in Enumerations(dirFiles[cur]) :
             ~SortThrows(e) /\ StdSort(e) = {file_names}

C3_Witness ==
    /\ pc = "roi"
    /\ dirFiles[cur] = {Frame0Png, Frame10Png}
    /\ enumerated = <<Frame10Png, Frame0Png>>
    /\ file_names = <<Frame0Png, Frame10Png>>

\* C4: a name without a digit ends its own leaf only: when the run has
\* ended on it, every other leaf has its complete table
C4_MalformedFatalForUnitOnly ==
    (/\ pc = "terminated"
     /\ cause = "out_of_range"
     /\ \E n \in dirFiles[cur] : ~HasDigit(n)
     /\ \A n \in dirFiles[cur] : HasDigit(n) => Indexed(n))
    => \A u \in Units \ {cur} : Complete(u)

\* C5: the shift of get_results with the compiled-in geometry is
\* (y + 64) - 272 rows and (x + 64) - 364 columns for the match location
\* (x, y), hence (0, 0) at the location (300, 208) the template was cut from
C5_ShiftFromMatch ==
    probe.phase = "shift" =>
        /\ probe.res.match_loc = probe.m.maxLoc
        /\ probe.res.shift_row = (probe.m.maxLoc[2] + 64) - 272
        /\ probe.res.shift_col = (probe.m.maxLoc[1] + 64) - 364
        /\ probe.m.maxLoc = <<300, 208>> =>
              probe.res.shift_row = 0 /\ probe.res.shift_col = 0
        /\ (probe.res.shift_row < 0) = (probe.m.maxLoc[2] < 208)
        /\ (probe.res.shift_col < 0) = (probe.m.maxLoc[1] < 300)

C5_Witness ==
    /\ probe.phase = "shift"
    /\ ~probe.frame.empty
    /\ probe.m.maxLoc = <<300, 208>>
    /\ probe.res.shift_row = 0
    /\ probe.res.shift_col = 0

\* the forward matrix applied to a displacement in mm, in double arithmetic
Forward(mm) ==
    [col |-> FAdd(FMul(Txx, mm.shift_col_mm), FMul(Txy, mm.shift_row_mm)),
     row |-> FAdd(FMul(Tyx, mm.shift_col_mm), FMul(Tyy, mm.shift_row_mm))]

\* |a - b| < 2^p, the difference taken in double arithmetic
Within(a, b, p) ==
    LET d == FSub(a, b)
    IN  d.m = <<>> \/ d.e + MantBits <= p

\* C6 as stated: the forward matrix applied to the computed displacement
\* gives back exactly the shift
C6_RoundTripExact ==
    /\ Det.m # <<>>
    /\ probe.phase = "shift" =>
          /\ Forward(probe.mm).col = FromInt(probe.res.shift_col)
          /\ Forward(probe.mm).row = FromInt(probe.res.shift_row)

\* C6: with the compiled-in matrix, whose determinant is not zero, the
\* forward matrix applied to the computed displacement gives back the shift
\* to within 2^-40 (below 1e-12) in each coordinate
C6_RoundTrip ==
    /\ Det.m # <<>>
    /\ probe.phase = "shift" =>
          /\ Within(Forward(probe.mm).col, FromInt(probe.res.shift_col), -40)
          /\ Within(Forward(probe.mm).row, FromInt(probe.res.shift_row), -40)

\* a shift the round trip recovers within the tolerance but not exactly
C6_Witness ==
    /\ probe.phase = "shift"
    /\ probe.res.shift_col = 300
    /\ probe.res.shift_row = -208
    /\ Forward(probe.mm).col # FromInt(300)
    /\ Within(Forward(probe.mm).col, FromInt(300), -40)
    /\ Forward(probe.mm).row = FromInt(-208)

\* C7: a table starts with the fixed header of 10 columns, and every data
\* row has 10 fields: shift X, shift Y, confidence, dist X, dist Y, four
\* empty error fields and the MIG value
C7_TenColumns ==
    \A u \in Units :
        LET t == tables[u]
        IN  /\ t.lines # <<>> =>
                 /\ t.lines[1] = HeaderLine
                 /\ Fields(t.lines[1]) = [i \in 1..10 |-> <<Str(ColumnNames[i])>>]
            /\ t.lines = <<>> => t.recs = <<>>
            /\ \A k \in 1..Len(t.recs) :
                  Fields(t.lines[k + 1])
                    = <<<<Num(FromInt(t.recs[k].res.shift_col))>>,
                        <<Num(FromInt(t.recs[k].res.shift_row))>>,
                        <<Num(t.recs[k].res.confidence)>>,
                        <<Num(t.recs[k].mm.shift_col_mm)>>,
                        <<Num(t.recs[k].mm.shift_row_mm)>>,
                        <<>>, <<>>, <<>>, <<>>,
                        <<Num(t.recs[k].mig)>>>>

C7_Witness ==
    \E u \in Units :
        /\ Len(tables[u].lines) = 3
        /\ Len(tables[u].recs) = 2
        /\ Len(Fields(tables[u].lines[3])) = 10

\* C8: names with the same index keep, in the sorted sequence, the relative
\* order they were enumerated in
C8_StableSort ==
    pc = "roi" =>
        \A i, j \in 1..Len(enumerated) :
            (/\ i < j
             /\ Indexed(enumerated[i]) /\ Indexed(enumerated[j])
             /\ IndexOf(enumerated[i]) = IndexOf(enumerated[j]))
            => PosIn(file_names, enumerated[i]) < PosIn(file_names, enumerated[j])

\* C9: at most one table is open, the leaves before the current one are
\* closed and those after it untouched, the header precedes the rows, and
\* row k of the current leaf is the record of the k-th name of file_names
C9_Sequential ==
    /\ Cardinality({u \in Units : tables[u].st = "open"}) <= 1
    /\ \A u \in Units :
          /\ u > cur => tables[u] = NoTable
          /\ (u < cur \/ (u = cur /\ pc = "next_unit")) => tables[u].st = "closed"
          /\ tables[u].recs # <<>> =>
                /\ tables[u].lines[1] = HeaderLine
                /\ Len(tables[u].lines) = Len(tables[u].recs) + 1
    /\ pc = "frames" =>
          /\ tables[cur].st = "open"
          /\ Len(tables[cur].recs) = idx - 1
          /\ \A k \in 1..Len(tables[cur].recs) :
                /\ k <= Len(file_names)
                /\ tables[cur].recs[k].file = file_names[k]
                /\ tables[cur].lines[k + 1]
                     = RowLine(tables[cur].recs[k].res, tables[cur].recs[k].mm,
                               tables[cur].recs[k].mig)

C9_Witness ==
    /\ pc = "frames"
    /\ cur = 2
    /\ tables[1].st = "closed"
    /\ Len(tables[1].recs) = 2
    /\ Len(tables[2].recs) = 2
    /\ tables[2].recs[1].file # tables[2].recs[2].file

\* C10: when Results.csv cannot be opened, recursive_folders returns the
\* failure code at once: nothing is written for that leaf, no later leaf is
\* touched, the earlier tables stay as they are, and no step follows
C10_OpenFailureReturns ==
    [][cause' = "open_failed" =>
          /\ pc' = "returned"
          /\ ret' = <<EXIT_FAILURE>>
          /\ tables'[cur'] = NoTable
          /\ \A u \in Units :
                /\ u > cur' => tables'[u] = NoTable /\ u \notin folders'
                /\ u < cur' => tables'[u] = tables[u] /\ tables'[u].st = "closed"
          /\ cause = "open_failed" => UNCHANGED vars]_vars

C10_Witness ==
    /\ cause = "open_failed"
    /\ pc = "returned"
    /\ cur = 2
    /\ tables[1].st = "closed"
    /\ Len(tables[1].recs) >= 2
    /\ tables[2] = NoTable

====
